---- MODULE Spec2Model ----
(***************************************************************************)
(* Model of contrib/plugins/cachetrace.c: a QEMU TCG plugin that toggles   *)
(* capture on a magic instruction, appends the physical address of every   *)
(* captured memory access to a dump file and patches the transaction       *)
(* count into the file header at exit.                                     *)
(*                                                                         *)
(* The dump file is modelled in units of 8-byte words (every fwrite of the *)
(* plugin writes one uint64_t), strings as tuples of characters.           *)
(***************************************************************************)
EXTENDS Integers, Sequences, FiniteSets, TLC

VARIABLES
    pc,             \* "boot", "failed", "running", "exited"
    argv,           \* option strings handed to qemu_plugin_install
    info,           \* qemu_info_t handed to qemu_plugin_install
    install_ret,    \* <<>> before install returned, <<r>> after
    registered,     \* plugin-wide callbacks registered with the emulator
    fs,             \* file system: path -> [exists, data]
    streams,        \* every FILE object fopen has returned
    dump_file,      \* plugin_state.dump_file: index in streams, 0 = NULL
    is_capturing,   \* plugin_state.is_capturing
    rw,             \* plugin_state.rw
    trans_captured, \* plugin_state.trans_captured
    outs,           \* lines given to qemu_plugin_outs
    errs,           \* lines printed on stderr
    vcpu_started,   \* the emulator has run the vcpu-init callbacks
    tb_hooks,       \* per block: the per-instruction registrations made
    nMagic,         \* executions of an instruction with the exec hook
    nMem,           \* memory accesses delivered to the memory hook
    captured,       \* physical addresses of the accesses made while
                    \* capturing that resolved to non-IO memory, in order
    lastCall,       \* the callback that ran last, with its inputs
    m_pc,           \* the matcher's caller: "idle", "call", "done"
    m_data,         \* instruction bytes handed to is_magic_inst
    m_result        \* what is_magic_inst returned for m_data

vars == <<pc, argv, info, install_ret, registered, fs, streams, dump_file,
          is_capturing, rw, trans_captured, outs, errs, vcpu_started,
          tb_hooks, nMagic, nMem, captured, lastCall, m_pc, m_data, m_result>>

matcher == <<m_pc, m_data, m_result>>

----------------------------------------------------------------------------
(* Bounds *)

MaxArgs == 2
MaxMagic == 4
MaxMem == 3
MaxVcpus == 2
MaxInsnLen == 11

----------------------------------------------------------------------------
(* Strings and the command line *)

NULLSTR == <<"NULL">>
DUMP == <<"d", "u", "m", "p">>
X86_64 == <<"x", "8", "6", "_", "6", "4">>
AARCH64 == <<"a", "a", "r", "c", "h", "6", "4">>

PathA == <<"a">>
PathDir == <<"/">>

\* Paths fopen(path, "wb") can open: a regular file that exists or can be
\* created.  "/" (a directory) and "" cannot be opened for writing.
Paths == {PathA}

Options ==
    { DUMP \o <<"=">> \o PathA,
      DUMP \o <<"=">> \o PathDir,
      DUMP \o <<"=">>,
      <<"r", "w", "=", "r">> }

RECURSIVE ArgVectors(_)
ArgVectors(n) ==
    IF n = 0 THEN { <<>> }
    ELSE LET shorter == ArgVectors(n - 1)
         IN  shorter \cup { Append(v, o) : v \in { w \in shorter : Len(w) = n - 1 },
                                           o \in Options }

Infos ==
    { i \in [target_name : {X86_64, AARCH64}, system_emulation : BOOLEAN,
              smp_vcpus : 1..MaxVcpus, max_vcpus : 1..MaxVcpus] :
        i.smp_vcpus <= i.max_vcpus }

\* g_strcmp0: 0 iff the two strings are equal
g_strcmp0(s, t) == IF s = t THEN 0 ELSE 1

\* index of the first delimiter in s at or after i, 0 if there is none
RECURSIVE FindDelim(_, _, _)
FindDelim(s, d, i) ==
    IF i > Len(s) THEN 0
    ELSE IF s[i] = d THEN i
    ELSE FindDelim(s, d, i + 1)

\* g_strsplit(s, d, 2): at most two pieces, split at the first delimiter
g_strsplit2(s, d) ==
    LET k == FindDelim(s, d, 1)
    IN  IF Len(s) = 0 THEN <<>>
        ELSE IF k = 0 THEN <<s>>
        ELSE <<SubSeq(s, 1, k - 1), SubSeq(s, k + 1, Len(s))>>

\* parts[i] of a NULL-terminated string vector (i counted from 0)
StrvAt(parts, i) == IF i < Len(parts) THEN parts[i + 1] ELSE NULLSTR

----------------------------------------------------------------------------
(* stdio on the dump file *)

\* fopen(path, "wb"): creates or truncates the file; NULL (0) on failure
CanOpen(path) == path \in Paths

\* fopen that keeps what the file held (a mode without truncation)
fopen_fs_keep(files, path) ==
    IF CanOpen(path) THEN [files EXCEPT ![path] = [exists |-> TRUE, data |-> @.data]]
    ELSE files

fopen_fs(files, path) ==
    IF CanOpen(path) THEN [files EXCEPT ![path] = [exists |-> TRUE, data |-> <<>>]]
    ELSE files

fopen_streams(strs, path) ==
    IF CanOpen(path) THEN Append(strs, [path |-> path, pos |-> 0, open |-> TRUE, err |-> FALSE])
    ELSE strs

fopen_handle(strs, path) == IF CanOpen(path) THEN Len(strs) + 1 ELSE 0

\* one 8-byte item written at word offset pos
WriteAt(data, pos, w) ==
    IF pos < Len(data) THEN [data EXCEPT ![pos + 1] = w]
    ELSE Append(data, w)

\* fwrite(&w, 8, 1, f); ok is whether the write of the item succeeds.  A
\* failed write stores nothing and sets the stream's error indicator.  The
\* record write of cb_vcpu_mem_access draws ok from BOOLEAN; the two header
\* writes (the placeholder of qemu_plugin_install and the patch of
\* cb_plugin_exit) are taken to succeed.
fwrite_fs(files, strs, f, w, ok) ==
    IF ok THEN [files EXCEPT ![strs[f].path].data = WriteAt(@, strs[f].pos, w)]
    ELSE files

\* a stream whose position does not move with a write
fwrite_streams_no_advance(strs, f, ok) ==
    IF ok THEN strs
    ELSE [strs EXCEPT ![f].err = TRUE]

fwrite_streams(strs, f, ok) ==
    IF ok THEN [strs EXCEPT ![f].pos = @ + 1]
    ELSE [strs EXCEPT ![f].err = TRUE]

\* fseek that leaves the position where it is
fseek_nowhere(strs, f) == strs

\* fseek(f, 0, SEEK_SET)
fseek_set0(strs, f) == [strs EXCEPT ![f].pos = 0]

\* fclose(f)
fclose(strs, f) == [strs EXCEPT ![f].open = FALSE]

----------------------------------------------------------------------------
(* qemu_plugin_install *)

\* struct qemu_plugin_hwaddr *: NULLHW is the NULL pointer
NULLHW == [valid |-> FALSE, is_io |-> FALSE, phys |-> 0]

QEMU_PLUGIN_MEM_R == 1
QEMU_PLUGIN_MEM_W == 2
QEMU_PLUGIN_MEM_RW == 3

\* one iteration of the option loop; st.ret = -1 once the loop has returned
ParseOption(st, opt) ==
    LET parts == g_strsplit2(opt, "=")
        path  == StrvAt(parts, 1)
        f     == fopen_handle(st.streams, path)
    IN  IF g_strcmp0(StrvAt(parts, 0), DUMP) = 0
        THEN IF f = 0
             THEN [st EXCEPT !.dump_file = 0,
                             !.errs = Append(@, <<"Failed to open dump file", path>>),
                             !.ret = -1]
             ELSE [st EXCEPT !.fs = fopen_fs(@, path),
                             !.streams = fopen_streams(@, path),
                             !.dump_file = f]
        ELSE [st EXCEPT !.errs = Append(@, <<"Unknown option", opt>>),
                        !.ret = -1]

\* for (int i = 0; i < argc; i++) ...
RECURSIVE ParseOptions(_, _, _)
ParseOptions(st, args, i) ==
    IF i > Len(args) \/ st.ret # 0 THEN st
    ELSE ParseOptions(ParseOption(st, args[i]), args, i + 1)

MissingDump(f) == f = 0
NotSystem(inf) == ~inf.system_emulation
TooManyVcpus_off_by_one(inf) == inf.max_vcpus > 2
TooManyVcpus(inf) == inf.max_vcpus > 1
UnsupportedTarget(inf) == g_strcmp0(inf.target_name, X86_64) # 0

\* the message of the sanity check that fails, <<>> if none does
SanityCheck(f, inf) ==
    IF MissingDump(f) THEN << <<"Missing required option: dump", <<>> >> >>
    ELSE IF NotSystem(inf) THEN << <<"This plugin is for system emulation only", <<>> >> >>
    ELSE IF TooManyVcpus(inf) THEN << <<"This plugin is for single-CPU emulation only", <<>> >> >>
    ELSE IF UnsupportedTarget(inf)
         THEN << <<"Unsupported target", inf.target_name>>,
                 <<"This plugin is for x86_64 target only", <<>> >> >>
    ELSE <<>>

\* uint64_t zero = 0: the placeholder written where the count will go
zero_sentinel == 0 - 1
zero == 0

InstallCallbacks == {"cb_vcpu_init", "cb_vcpu_tb_trans", "cb_plugin_exit"}

qemu_plugin_install ==
    /\ pc = "boot"
    /\ LET st0 == [fs |-> fs, streams |-> streams, dump_file |-> dump_file,
                   errs |-> errs, ret |-> 0]
           st  == ParseOptions(st0, argv, 1)
           bad == SanityCheck(st.dump_file, info)
       IN  IF st.ret # 0 \/ bad # <<>>
           THEN /\ pc' = "failed"
                /\ install_ret' = <<-1>>
                /\ fs' = st.fs
                /\ streams' = st.streams
                /\ dump_file' = st.dump_file
                /\ errs' = st.errs \o bad
                /\ UNCHANGED <<registered, is_capturing, rw, trans_captured, outs>>
           ELSE /\ pc' = "running"
                /\ install_ret' = <<0>>
                /\ is_capturing' = FALSE
                /\ rw' = QEMU_PLUGIN_MEM_RW
                /\ trans_captured' = 0
                /\ outs' = Append(outs, <<"Initialized cache trace plugin">>)
                /\ fs' = fwrite_fs(st.fs, st.streams, st.dump_file, zero, TRUE)
                /\ streams' = fwrite_streams(st.streams, st.dump_file, TRUE)
                /\ dump_file' = st.dump_file
                /\ errs' = st.errs
                /\ registered' = registered \cup InstallCallbacks
    /\ lastCall' = [op |-> "qemu_plugin_install", capturing |-> is_capturing,
                    hw |-> NULLHW, tb |-> 0, ok |-> TRUE]
    /\ UNCHANGED <<argv, info, vcpu_started, tb_hooks, nMagic, nMem, captured>>
    /\ UNCHANGED matcher

----------------------------------------------------------------------------
(* Instruction Matcher and the translated blocks *)

\* MAGIC_INST: movabsq rax, 0xcafebabedeadbeef
MAGIC_INST == <<72, 184, 239, 190, 173, 222, 190, 186, 254, 202>>

\* memcmp(a, b, n) == 0
RECURSIVE memcmp_eq(_, _, _)
memcmp_eq(a, b, n) ==
    IF n = 0 THEN TRUE
    ELSE a[n] = b[n] /\ memcmp_eq(a, b, n - 1)

\* a matcher that accepts any instruction starting with the pattern
is_magic_inst_prefix(data, size) ==
    size >= Len(MAGIC_INST) /\ memcmp_eq(data, MAGIC_INST, Len(MAGIC_INST))

\* a matcher that looks at the length only
is_magic_inst_size_only(data, size) == size = Len(MAGIC_INST)

is_magic_inst(data, size) ==
    size = Len(MAGIC_INST) /\ memcmp_eq(data, MAGIC_INST, Len(MAGIC_INST))

\* guest code: mov (%rdi),%rax ; the magic ; mov %rax,(%rsi)
\*             movabsq rax, 0xcafebabedeadbeee ; nop
InsnLoad == <<72, 139, 7>>
InsnStore == <<72, 137, 6>>
InsnNop == <<144>>
InsnNearMagic == <<72, 184, 238, 190, 173, 222, 190, 186, 254, 202>>

Blocks == << <<InsnLoad, MAGIC_INST, InsnStore>>, <<InsnNearMagic, InsnNop>> >>

\* an instrumenter that registers the memory hook only while capturing
RECURSIVE TbTransLoop_lazy(_, _, _)
TbTransLoop_lazy(tb, i, filter) ==
    IF i > Len(tb) THEN <<>>
    ELSE IF is_magic_inst(tb[i], Len(tb[i]))
         THEN <<[insn |-> i, cb |-> "cb_vcpu_magic_insn_exec", rw |-> 0]>>
              \o TbTransLoop_lazy(tb, i + 1, filter)
         ELSE (IF is_capturing
               THEN <<[insn |-> i, cb |-> "cb_vcpu_mem_access", rw |-> filter]>>
               ELSE <<>>)
              \o TbTransLoop_lazy(tb, i + 1, filter)

\* the registrations cb_vcpu_tb_trans makes for instructions i..n of tb
RECURSIVE TbTransLoop(_, _, _)
TbTransLoop(tb, i, filter) ==
    IF i > Len(tb) THEN <<>>
    ELSE IF is_magic_inst(tb[i], Len(tb[i]))
         THEN <<[insn |-> i, cb |-> "cb_vcpu_magic_insn_exec", rw |-> 0]>>
              \o TbTransLoop(tb, i + 1, filter)
         ELSE <<[insn |-> i, cb |-> "cb_vcpu_mem_access", rw |-> filter]>>
              \o TbTransLoop(tb, i + 1, filter)

NoCall(op) == [op |-> op, capturing |-> is_capturing, hw |-> NULLHW,
               tb |-> 0, ok |-> TRUE]

Running == pc = "running"

cb_vcpu_init ==
    /\ Running
    /\ "cb_vcpu_init" \in registered
    /\ ~vcpu_started
    /\ vcpu_started' = TRUE
    /\ lastCall' = NoCall("cb_vcpu_init")
    /\ UNCHANGED <<pc, argv, info, install_ret, registered, fs, streams,
                   dump_file, is_capturing, rw, trans_captured, outs, errs,
                   tb_hooks, nMagic, nMem, captured, matcher>>

cb_vcpu_tb_trans(b) ==
    /\ Running
    /\ "cb_vcpu_tb_trans" \in registered
    /\ vcpu_started
    /\ tb_hooks' = [tb_hooks EXCEPT ![b] = TbTransLoop(Blocks[b], 1, rw)]
    /\ lastCall' = [NoCall("cb_vcpu_tb_trans") EXCEPT !.tb = b]
    /\ UNCHANGED <<pc, argv, info, install_ret, registered, fs, streams,
                   dump_file, is_capturing, rw, trans_captured, outs, errs,
                   vcpu_started, nMagic, nMem, captured, matcher>>

\* some translated instruction carries a registration of callback cb that
\* the emulator dispatches for an access of the given direction
Hooked(cb, dirs) ==
    \E b \in DOMAIN tb_hooks : \E k \in DOMAIN tb_hooks[b] :
        /\ tb_hooks[b][k].cb = cb
        /\ tb_hooks[b][k].rw \in dirs

Toggle_set(capturing) == TRUE
Toggle(capturing) == ~capturing

\* toggle lines with the count printed on every toggle
ToggleLines_always_count(capturing, count) ==
    << <<"Magic instruction executed">>,
       (IF capturing THEN <<"Start capturing cache trace">>
        ELSE <<"Stopped capturing cache trace">>),
       <<"Number of transactions captured: ", count>> >>

\* the lines the toggle callback emits once the flag has been flipped to
\* capturing, count being trans_captured
ToggleLines(capturing, count) ==
    << <<"Magic instruction executed">> >> \o
    (IF capturing
     THEN << <<"Start capturing cache trace">> >>
     ELSE << <<"Stopped capturing cache trace">>,
             <<"Number of transactions captured: ", count>> >>)

\* a toggle callback that restarts the count with every capture window
cb_vcpu_magic_insn_exec_reset ==
    /\ Running
    /\ Hooked("cb_vcpu_magic_insn_exec", {0})
    /\ nMagic < MaxMagic
    /\ nMagic' = nMagic + 1
    /\ is_capturing' = Toggle(is_capturing)
    /\ trans_captured' = IF is_capturing' THEN 0 ELSE trans_captured
    /\ outs' = outs \o ToggleLines(is_capturing', trans_captured)
    /\ lastCall' = NoCall("cb_vcpu_magic_insn_exec")
    /\ UNCHANGED <<pc, argv, info, install_ret, registered, fs, streams,
                   dump_file, rw, errs, vcpu_started,
                   tb_hooks, captured, nMem, matcher>>

cb_vcpu_magic_insn_exec ==
    /\ Running
    /\ Hooked("cb_vcpu_magic_insn_exec", {0})
    /\ nMagic < MaxMagic
    /\ nMagic' = nMagic + 1
    /\ is_capturing' = Toggle(is_capturing)
    /\ outs' = outs \o ToggleLines(is_capturing', trans_captured)
    /\ lastCall' = NoCall("cb_vcpu_magic_insn_exec")
    /\ UNCHANGED <<pc, argv, info, install_ret, registered, fs, streams,
                   dump_file, rw, trans_captured, errs, vcpu_started,
                   tb_hooks, captured, nMem, matcher>>

----------------------------------------------------------------------------
(* Memory Access Recorder and Finalizer *)

PhysAddrs == {4096, 8192}

\* what qemu_plugin_get_hwaddr(info, vaddr) can return
HwAddrs ==
    {NULLHW} \cup [valid : {TRUE}, is_io : BOOLEAN, phys : PhysAddrs]

\* the access directions a registration with filter rw is dispatched for
DirFilters(is_store) ==
    IF is_store THEN {QEMU_PLUGIN_MEM_W, QEMU_PLUGIN_MEM_RW}
    ELSE {QEMU_PLUGIN_MEM_R, QEMU_PLUGIN_MEM_RW}

NotCapturing_never(capturing) == FALSE
NotCapturing(capturing) == ~capturing
SkipAccess(hwaddr) == ~hwaddr.valid \/ hwaddr.is_io
qemu_plugin_hwaddr_phys_addr(hwaddr) == hwaddr.phys

\* hwaddr is the result of qemu_plugin_get_hwaddr(info, vaddr); ok is
\* whether the fwrite of the record succeeds.  The result of fwrite is not
\* looked at: trans_captured is incremented either way.  (trans_captured
\* is a uint64_t; MaxMem keeps it far from wrapping.)
cb_vcpu_mem_access(is_store, hwaddr, ok) ==
    /\ Running
    /\ Hooked("cb_vcpu_mem_access", DirFilters(is_store))
    /\ nMem < MaxMem
    /\ nMem' = nMem + 1
    /\ captured' = IF is_capturing /\ hwaddr.valid /\ ~hwaddr.is_io
                   THEN Append(captured, hwaddr.phys)
                   ELSE captured
    /\ IF NotCapturing(is_capturing) \/ SkipAccess(hwaddr)
       THEN /\ UNCHANGED <<fs, streams, trans_captured>>
            /\ lastCall' = [NoCall("cb_vcpu_mem_access") EXCEPT
                              !.hw = hwaddr]
       ELSE /\ fs' = fwrite_fs(fs, streams, dump_file,
                               qemu_plugin_hwaddr_phys_addr(hwaddr), ok)
            /\ streams' = fwrite_streams(streams, dump_file, ok)
            /\ trans_captured' = trans_captured + 1
            /\ lastCall' = [NoCall("cb_vcpu_mem_access") EXCEPT
                              !.hw = hwaddr, !.ok = ok]
    /\ UNCHANGED <<pc, argv, info, install_ret, registered, dump_file,
                   is_capturing, rw, outs, errs, vcpu_started, tb_hooks,
                   nMagic, matcher>>

\* a Finalizer that also ends the capture
cb_plugin_exit_stops ==
    /\ Running
    /\ "cb_plugin_exit" \in registered
    /\ pc' = "exited"
    /\ is_capturing' = FALSE
    /\ LET sought == fseek_set0(streams, dump_file)
       IN  /\ fs' = fwrite_fs(fs, sought, dump_file, trans_captured, TRUE)
           /\ streams' = fclose(fwrite_streams(sought, dump_file, TRUE), dump_file)
    /\ lastCall' = NoCall("cb_plugin_exit")
    /\ UNCHANGED <<argv, info, install_ret, registered, dump_file,
                   rw, trans_captured, outs, errs,
                   vcpu_started, tb_hooks, nMagic, nMem, captured, matcher>>

cb_plugin_exit ==
    /\ Running
    /\ "cb_plugin_exit" \in registered
    /\ pc' = "exited"
    /\ LET sought == fseek_set0(streams, dump_file)
       IN  /\ fs' = fwrite_fs(fs, sought, dump_file, trans_captured, TRUE)
           /\ streams' = fclose(fwrite_streams(sought, dump_file, TRUE), dump_file)
    /\ lastCall' = NoCall("cb_plugin_exit")
    /\ UNCHANGED <<argv, info, install_ret, registered, dump_file,
                   is_capturing, rw, trans_captured, outs, errs,
                   vcpu_started, tb_hooks, nMagic, nMem, captured, matcher>>

----------------------------------------------------------------------------
(* The emulator drives the plugin *)

\* an earlier run's trace at PathA
OldTrace == <<2, 12288, 12288>>

InitFs == [p \in Paths |-> [exists |-> TRUE, data |-> OldTrace]]

Init ==
    /\ pc = "boot"
    /\ argv \in ArgVectors(MaxArgs)
    /\ info \in Infos
    /\ install_ret = <<>>
    /\ registered = {}
    /\ fs = InitFs
    /\ streams = <<>>
    /\ dump_file = 0
    /\ is_capturing = FALSE
    /\ rw = 0
    /\ trans_captured = 0
    /\ outs = <<>>
    /\ errs = <<>>
    /\ vcpu_started = FALSE
    /\ tb_hooks = [b \in DOMAIN Blocks |-> <<>>]
    /\ nMagic = 0
    /\ nMem = 0
    /\ captured = <<>>
    /\ lastCall = NoCall("none")
    /\ m_pc = "idle"
    /\ m_data = <<>>
    /\ m_result = FALSE

Next ==
    \/ qemu_plugin_install
    \/ cb_vcpu_init
    \/ \E b \in DOMAIN Blocks : cb_vcpu_tb_trans(b)
    \/ cb_vcpu_magic_insn_exec
    \/ \E is_store \in BOOLEAN, hwaddr \in HwAddrs, ok \in BOOLEAN :
          cb_vcpu_mem_access(is_store, hwaddr, ok)
    \/ cb_plugin_exit

Spec == Init /\ [][Next]_vars

----------------------------------------------------------------------------
(* The Instruction Matcher on its own *)

\* the pattern cut or padded to n bytes
PatternOfLen(n) == [i \in 1..n |-> IF i <= Len(MAGIC_INST) THEN MAGIC_INST[i] ELSE 144]

\* every length up to MaxInsnLen, the pattern bytes with at most one of
\* them changed
MatcherInputs ==
    UNION { { [i \in 1..n |-> IF i = d THEN (PatternOfLen(n)[i] + 1) % 256
                                        ELSE PatternOfLen(n)[i]] : d \in 0..n } :
            n \in 0..MaxInsnLen }

InitMatcher ==
    /\ pc = "boot"
    /\ argv = <<>>
    /\ info = [target_name |-> X86_64, system_emulation |-> TRUE,
               smp_vcpus |-> 1, max_vcpus |-> 1]
    /\ install_ret = <<>>
    /\ registered = {}
    /\ fs = InitFs
    /\ streams = <<>>
    /\ dump_file = 0
    /\ is_capturing = FALSE
    /\ rw = 0
    /\ trans_captured = 0
    /\ outs = <<>>
    /\ errs = <<>>
    /\ vcpu_started = FALSE
    /\ tb_hooks = [b \in DOMAIN Blocks |-> <<>>]
    /\ nMagic = 0
    /\ nMem = 0
    /\ captured = <<>>
    /\ lastCall = NoCall("none")
    /\ m_pc = "call"
    /\ m_data \in MatcherInputs
    /\ m_result = FALSE

\* is_magic_inst(insn_data, insn_data_size) as cb_vcpu_tb_trans calls it
MatchInsn ==
    /\ m_pc = "call"
    /\ m_result' = is_magic_inst(m_data, Len(m_data))
    /\ m_pc' = "done"
    /\ UNCHANGED <<pc, argv, info, install_ret, registered, fs, streams,
                   dump_file, is_capturing, rw, trans_captured, outs, errs,
                   vcpu_started, tb_hooks, nMagic, nMem, captured, lastCall,
                   m_data>>

NextMatcher == MatchInsn

SpecMatcher == InitMatcher /\ [][NextMatcher]_vars

----------------------------------------------------------------------------
(* Properties *)

Installed == pc \in {"running", "exited"}

\* the words of the file behind plugin_state.dump_file
DumpData == fs[streams[dump_file].path].data
SinkError == dump_file # 0 /\ streams[dump_file].err
MemStep == nMem' = nMem + 1
Recordable(hwaddr) == hwaddr.valid /\ ~hwaddr.is_io

\* what a reader gets that reads the header and then header records
ReadTrace(data) ==
    IF Len(data) >= 1 /\ Len(data) >= 1 + data[1]
    THEN SubSeq(data, 2, 1 + data[1])
    ELSE <<-1>>

\* C1: after the Finalizer the header equals the number of records in the
\* file, and the file is 8 + 8 * header bytes (1 + header words) long.
C1_HeaderCountsRecords ==
    pc = "exited" => Len(DumpData) >= 1 /\ Len(DumpData) = 1 + DumpData[1]

\* C2: a failed write of a record is fatal: once the sink has failed the
\* plugin neither keeps running nor finalizes a trace.
C2_FailedWriteIsFatal ==
    SinkError => ~Installed

\* C3: while capturing, an access that resolves to non-IO memory appends
\* exactly one record holding its physical address and adds one to the
\* counter; an unresolved or IO access changes neither and raises no error.
C3_RecorderAppendsOne ==
    [][(MemStep /\ is_capturing) =>
          IF Recordable(lastCall'.hw)
          THEN /\ DumpData' = Append(DumpData, lastCall'.hw.phys)
               /\ trans_captured' = trans_captured + 1
          ELSE /\ DumpData' = DumpData
               /\ trans_captured' = trans_captured
               /\ errs' = errs /\ pc' = pc /\ streams' = streams]_vars

\* C4: while idle a memory access appends nothing and leaves the counter.
C4_IdleAccessIsNoOp ==
    [][(MemStep /\ ~is_capturing) =>
          /\ fs' = fs
          /\ streams' = streams
          /\ trans_captured' = trans_captured]_vars

C4_Witness ==
    /\ lastCall.op = "cb_vcpu_mem_access"
    /\ ~lastCall.capturing
    /\ Recordable(lastCall.hw)
    /\ nMagic = 2
    /\ trans_captured > 0

\* C5: after a successful startup the state is Idle with a zero counter,
\* and capturing is true exactly after an odd number of magic executions.
C5_ToggleParity ==
    Installed =>
        /\ is_capturing = (nMagic % 2 = 1)
        /\ (lastCall.op = "qemu_plugin_install" =>
                ~is_capturing /\ trans_captured = 0)

C5_Witness ==
    /\ Installed
    /\ nMagic = 3
    /\ is_capturing
    /\ nMem > 0

\* C6: reading the header and then header records from the finalized file
\* gives exactly the captured physical addresses, in order.
C6_RoundTrip ==
    pc = "exited" =>
        /\ ReadTrace(DumpData) = captured
        /\ Len(DumpData) = 1 + Len(captured)

\* the options of the command line, read off the strings themselves
DumpPrefix == DUMP \o <<"=">>
IsDumpOption(opt) ==
    Len(opt) >= Len(DumpPrefix) /\ SubSeq(opt, 1, Len(DumpPrefix)) = DumpPrefix
DumpPathOf(opt) == SubSeq(opt, Len(DumpPrefix) + 1, Len(opt))
DumpOptions == { i \in DOMAIN argv : IsDumpOption(argv[i]) }

ConfigError ==
    \/ DumpOptions = {}
    \/ \E i \in DumpOptions : DumpPathOf(argv[i]) \notin Paths
    \/ \E i \in DOMAIN argv : ~IsDumpOption(argv[i])
    \/ info.target_name # X86_64
    \/ ~info.system_emulation
    \/ info.smp_vcpus > 1

\* C7: with a missing dump option, an unopenable dump path, an unknown
\* option, a target other than x86_64, user-mode emulation or more than one
\* vcpu, qemu_plugin_install returns nonzero and registers no callback.
C7_ConfigErrorFailsStartup ==
    (pc # "boot" /\ ConfigError) =>
        /\ install_ret # <<0>>
        /\ install_ret # <<>>
        /\ registered = {}
        /\ pc = "failed"

C7_Witness ==
    /\ pc = "failed"
    /\ argv = <<DumpPrefix \o PathA>>
    /\ info.target_name = X86_64
    /\ info.system_emulation
    /\ info.smp_vcpus > 1
    /\ install_ret = <<-1>>

\* C8: a startup that aborts leaves no partial state: no file was created
\* or truncated and no stream is left open.
C8_NoPartialState ==
    pc = "failed" =>
        /\ fs = InitFs
        /\ \A k \in DOMAIN streams : ~streams[k].open

\* C9: a dump option given more than once makes startup fail.
C9_DuplicateDumpRejected ==
    (pc # "boot" /\ Cardinality(DumpOptions) > 1) =>
        pc = "failed" /\ install_ret = <<-1>>

\* C10: whatever the capturing flag, the Finalizer writes the number of
\* captured accesses over the header word, leaves every record as it was
\* and closes the sink.
C10_FinalizerIgnoresCapturing ==
    [][(pc = "running" /\ pc' = "exited") =>
          /\ DumpData'[1] = Len(captured)
          /\ Len(DumpData') = Len(DumpData)
          /\ \A k \in 2..Len(DumpData) : DumpData'[k] = DumpData[k]
          /\ ~streams'[dump_file].open
          /\ is_capturing' = is_capturing]_vars

C10_Witness ==
    /\ pc = "exited"
    /\ is_capturing
    /\ nMagic = 1
    /\ Len(captured) = 3
    /\ DumpData = <<3>> \o captured
    /\ ~streams[dump_file].open

\* C11: when no magic instruction executes between startup and exit, the
\* finalized file is the 8-byte header alone and the header is 0, whatever
\* blocks were translated and whatever accesses were delivered.
C11_NoMagicEmptyTrace ==
    (pc = "exited" /\ nMagic = 0) => DumpData = <<0>>

C11_Witness ==
    /\ pc = "exited"
    /\ nMagic = 0
    /\ nMem >= 2
    /\ \A b \in DOMAIN tb_hooks : tb_hooks[b] # <<>>
    /\ DumpData = <<0>>

\* a step in which block b is translated
TbStep(b) == lastCall'.op = "cb_vcpu_tb_trans" /\ lastCall'.tb = b

\* the registrations made for instruction i of a block
HooksOf(regs, i) == { k \in DOMAIN regs : regs[k].insn = i }

\* C12: translating a block registers exactly one hook per instruction: the
\* toggle callback when the bytes are the magic pattern, otherwise the
\* memory-access hook with the configured filter; and it changes none of
\* the capturing flag, the counter, the filter and the sink.
C12_OneHookPerInstruction ==
    [][\A b \in DOMAIN Blocks : TbStep(b) =>
          /\ \A i \in DOMAIN Blocks[b] :
                /\ Cardinality(HooksOf(tb_hooks'[b], i)) = 1
                /\ \A k \in HooksOf(tb_hooks'[b], i) :
                      IF Blocks[b][i] = MAGIC_INST
                      THEN tb_hooks'[b][k].cb = "cb_vcpu_magic_insn_exec"
                      ELSE /\ tb_hooks'[b][k].cb = "cb_vcpu_mem_access"
                           /\ tb_hooks'[b][k].rw = rw
          /\ \A k \in DOMAIN tb_hooks'[b] : tb_hooks'[b][k].insn \in DOMAIN Blocks[b]
          /\ UNCHANGED <<is_capturing, trans_captured, rw, fs, streams, dump_file>>]_vars

C12_Witness ==
    /\ lastCall.op = "cb_vcpu_tb_trans"
    /\ lastCall.tb = 2
    /\ is_capturing
    /\ trans_captured > 0
    /\ Len(tb_hooks[1]) = 3
    /\ Len(tb_hooks[2]) = 2

MagicStep == nMagic' = nMagic + 1
ExitStep == pc = "running" /\ pc' = "exited"

\* C13: once startup has set up the sink, the file, the stream and the
\* counter change only in a step of the Memory Access Recorder or of the
\* Finalizer; the toggle callback changes the capturing flag and the
\* diagnostics and nothing of the sink or the counter.
C13_SinkOwnership ==
    [][pc = "running" =>
          /\ (fs' # fs \/ streams' # streams \/ dump_file' # dump_file
                \/ trans_captured' # trans_captured)
                => (MemStep \/ ExitStep)
          /\ MagicStep =>
                /\ is_capturing' # is_capturing
                /\ Len(outs') > Len(outs)
                /\ UNCHANGED <<fs, streams, dump_file, trans_captured, rw,
                               tb_hooks, registered, errs, pc>>]_vars

C13_Witness ==
    /\ lastCall.op = "cb_vcpu_magic_insn_exec"
    /\ nMagic = 3
    /\ is_capturing
    /\ trans_captured >= 2
    /\ Len(DumpData) >= 2

\* C14: from a successful startup until the Finalizer the header word of
\* the trace is 0 whatever trans_captured is; the Finalizer step is the
\* one that makes it trans_captured.
C14_HeaderZeroUntilExit ==
    /\ pc = "running" => Len(DumpData) >= 1 /\ DumpData[1] = 0
    /\ pc = "exited" => Len(DumpData) >= 1 /\ DumpData[1] = trans_captured

C14_Witness ==
    /\ pc = "running"
    /\ trans_captured >= 2
    /\ Len(DumpData) = 1 + trans_captured
    /\ DumpData[1] = 0

\* C15: trans_captured starts at 0 and every step either leaves it or adds
\* exactly one, and it adds one only in a step that appends a record.
C15_CountFollowsRecords ==
    [][/\ pc' = "running" /\ pc = "boot" => trans_captured' = 0
       /\ pc = "running" =>
            \/ trans_captured' = trans_captured
            \/ /\ trans_captured' = trans_captured + 1
               /\ Len(DumpData') = Len(DumpData) + 1]_vars

\* the lines a step adds to the diagnostics
NewLines == SubSeq(outs', Len(outs) + 1, Len(outs'))
Emitted(new, line) == \E k \in DOMAIN new : new[k] = line
IsSummary(line) == Len(line) = 2
StartLine == <<"Start capturing cache trace">>
StopLine == <<"Stopped capturing cache trace">>

\* C16: a toggle out of Idle announces the start and nothing else about
\* counts; a toggle into Idle announces the stop and one summary holding
\* the trans_captured of that moment; no other step emits a summary.
C16_ToggleAnnouncements ==
    [][/\ Len(outs') >= Len(outs)
       /\ SubSeq(outs', 1, Len(outs)) = outs
       /\ (MagicStep /\ ~is_capturing) =>
             /\ Emitted(NewLines, StartLine)
             /\ ~Emitted(NewLines, StopLine)
             /\ \A k \in DOMAIN NewLines : ~IsSummary(NewLines[k])
       /\ (MagicStep /\ is_capturing) =>
             /\ Emitted(NewLines, StopLine)
             /\ ~Emitted(NewLines, StartLine)
             /\ Cardinality({ k \in DOMAIN NewLines : IsSummary(NewLines[k]) }) = 1
             /\ \A k \in DOMAIN NewLines :
                   IsSummary(NewLines[k]) => NewLines[k][2] = trans_captured
       /\ ~MagicStep => \A k \in DOMAIN NewLines : ~IsSummary(NewLines[k])]_vars

\* the second stop reports the accesses of both windows
C16_Witness ==
    /\ lastCall.op = "cb_vcpu_magic_insn_exec"
    /\ nMagic = 4
    /\ ~is_capturing
    /\ trans_captured = 3
    /\ Emitted(outs, <<"Number of transactions captured: ", 1>>)
    /\ outs[Len(outs)] = <<"Number of transactions captured: ", 3>>

\* C17: translating a block that was translated before gives every
\* instruction the registrations it had, whatever happened in between.
C17_RetranslationIdentical ==
    [][\A b \in DOMAIN Blocks :
          (TbStep(b) /\ tb_hooks[b] # <<>>) => tb_hooks'[b] = tb_hooks[b]]_vars

\* block 1 holds the magic instruction, so it was translated before the
\* first toggle: this is a second translation, made while capturing
C17_Witness ==
    /\ lastCall.op = "cb_vcpu_tb_trans"
    /\ lastCall.tb = 1
    /\ nMagic = 1
    /\ is_capturing
    /\ trans_captured > 0

\* C18: is_magic_inst is true exactly for the 10 bytes 48 b8 ef be ad de be
\* ba fe ca: any other length, a longer sequence starting with the pattern
\* included, and any differing byte give false.
C18_MatcherExact ==
    m_pc = "done" =>
        m_result = (/\ Len(m_data) = 10
                    /\ m_data = <<72, 184, 239, 190, 173, 222, 190, 186, 254, 202>>)

C18_Witness ==
    /\ m_pc = "done"
    /\ Len(m_data) = 11
    /\ SubSeq(m_data, 1, 10) = MAGIC_INST
    /\ ~m_result

\* C19: is_capturing changes only in a toggle step; a memory access, a
\* block translation, the vcpu initialisation and the Finalizer leave it.
C19_OnlyToggleFlipsCapturing ==
    [][/\ is_capturing' # is_capturing => MagicStep
       /\ (MemStep \/ ExitStep \/ lastCall'.op = "cb_vcpu_tb_trans"
             \/ lastCall'.op = "cb_vcpu_init")
             => is_capturing' = is_capturing]_vars

C19_Witness ==
    /\ pc = "exited"
    /\ lastCall.op = "cb_plugin_exit"
    /\ is_capturing
    /\ nMagic = 3
    /\ nMem = 3

\* C20: the header and the records never overlap: the header word is in
\* the file before any callback runs, a record is appended behind all the
\* words already there (offset 8 + 8k with k records before it) and changes
\* none of them, and the Finalizer changes the header word only.
C20_HeaderAndRecordsDisjoint ==
    [][/\ Installed' => Len(DumpData') >= 1
       /\ MemStep =>
             /\ \A j \in 1..Len(DumpData) : DumpData'[j] = DumpData[j]
             /\ \/ DumpData' = DumpData
                \/ /\ Len(DumpData') = Len(DumpData) + 1
                   /\ DumpData'[Len(DumpData) + 1] = lastCall'.hw.phys
             /\ (Recordable(lastCall'.hw) /\ is_capturing /\ lastCall'.ok)
                   => Len(DumpData') = Len(DumpData) + 1
       /\ ExitStep =>
             /\ Len(DumpData') = Len(DumpData)
             /\ \A j \in 2..Len(DumpData) : DumpData'[j] = DumpData[j]]_vars

C20_Witness ==
    /\ pc = "exited"
    /\ Len(DumpData) = 4
    /\ DumpData[1] = 3
    /\ DumpData[2] = 4096
    /\ DumpData[3] = 8192
    /\ DumpData[4] = 4096

====
